---- MODULE Spec2Model ----
(***************************************************************************)
(* Model of k8s-ldap-auth: the directory client (ldap/ldap.go) and the two *)
(* HTTP handlers POST /auth and POST /token (server/server.go).            *)
(*                                                                         *)
(* Strings that the code converts (lower-casing, regexp extraction, filter *)
(* formatting) are sequences of one-character strings; strings the code    *)
(* only compares or copies (passwords, error texts) are TLA+ strings.      *)
(* An optional value (a Go pointer that may be nil) is a sequence of       *)
(* length 0 or 1.                                                          *)
(***************************************************************************)
EXTENDS Integers, Sequences, FiniteSets, TLC

\* now       the clock that types.NewToken and Token.IsValid read
\* pc        pc[r]: where the handler of request r stands
\* request   request[r]: the HTTP request (path, content type, body)
\* local     local[r]: the locals of the handler and of the Search it calls
\* conn      conn[r]: the directory connection r opened: none, open, closed
\* ops       ops[r]: the operations r issued on the directory, in order
\* response  response[r]: what the handler wrote to the ResponseWriter
\* instances   instances[i]: how far the server instance i got: none (not
\*             constructed), error (NewInstance returned an error), built,
\*             started, panicked (NewInstance panicked)
\* defaultMux  the handler registered for "/" on http.DefaultServeMux, which
\*             is the process's only one: empty, or the router of an instance
VARIABLES now, pc, request, local, conn, ops, response, instances, defaultMux

vars == <<now, pc, request, local, conn, ops, response, instances, defaultMux>>

-----------------------------------------------------------------------------
(* Bounds of the model *)

\* The clock runs from 0 to MaxTime.
MaxTime == 3

\* The requests handled, each by its own goroutine (net/http serves every
\* request on a goroutine of its own).
Reqs == {"r1", "r2"}

\* The server instances a process may construct.
Instances == {"s1", "s2"}

-----------------------------------------------------------------------------
(* Strings *)

UpperLetters == <<"A","B","C","D","E","F","G","H","I","J","K","L","M",
                  "N","O","P","Q","R","S","T","U","V","W","X","Y","Z">>

LowerLetters == <<"a","b","c","d","e","f","g","h","i","j","k","l","m",
                  "n","o","p","q","r","s","t","u","v","w","x","y","z">>

Digits == {"0","1","2","3","4","5","6","7","8","9"}

ToLowerChar(c) ==
  IF \E i \in 1..26 : UpperLetters[i] = c
  THEN LowerLetters[CHOOSE i \in 1..26 : UpperLetters[i] = c]
  ELSE c

\* strings.ToLower
ToLower(s) == [i \in 1..Len(s) |-> ToLowerChar(s[i])]

\* strings.HasPrefix
HasPrefix(s, p) == Len(s) >= Len(p) /\ SubSeq(s, 1, Len(p)) = p

\* The character class [a-z0-9\-] of the group pattern.
InGroupClass(c) == (\E i \in 1..26 : LowerLetters[i] = c) \/ c \in Digits \/ c = "-"

CnPrefix == <<"c", "n", "=">>

\* Length of the longest run of class characters of s from position i on
\* (the + of the pattern is greedy).
RECURSIVE ClassRun(_, _)
ClassRun(s, i) ==
  IF i <= Len(s) /\ InGroupClass(s[i]) THEN 1 + ClassRun(s, i + 1) ELSE 0

\* regexp.MustCompile(`^cn=([a-z0-9\-]+)`).FindStringSubmatch(s): the
\* submatches <<whole match, group 1>>, or the empty sequence (nil) when s
\* does not match.
FindStringSubmatch(s) ==
  IF HasPrefix(s, CnPrefix) /\ ClassRun(s, 4) >= 1
  THEN <<SubSeq(s, 1, 3 + ClassRun(s, 4)), SubSeq(s, 4, 3 + ClassRun(s, 4))>>
  ELSE <<>>

\* One iteration of sanitize's loop: the index [1] of the submatches. On a
\* nil result the index is out of range and the goroutine panics.
SanitizeItem(item) ==
  LET m == FindStringSubmatch(ToLower(item))
  IN  IF m = <<>> THEN [panic |-> TRUE, name |-> <<>>]
                  ELSE [panic |-> FALSE, name |-> m[2]]

\* sanitize(a): res holds one name per item, in order, up to the first item
\* that panics.
RECURSIVE sanitize(_)
sanitize(a) ==
  IF a = <<>> THEN [panic |-> FALSE, res |-> <<>>]
  ELSE LET h == SanitizeItem(Head(a))
           t == sanitize(Tail(a))
       IN  IF h.panic THEN [panic |-> TRUE, res |-> <<>>]
           ELSE [panic |-> t.panic,
                 res |-> IF t.panic THEN <<>> ELSE <<h.name>> \o t.res]

-----------------------------------------------------------------------------
(* The directory: the external LDAP server the client talks to *)

\* Entries of the directory. memberOf holds the values of the group attribute
\* (Ldap.memberOfProperty), in the attribute's order.
Al == [dn |-> <<"u","=","A","l">>, uid |-> <<"A","l">>, password |-> "p1",
       memberOf |-> << <<"C","N","=","O","p","s",",","o">>,
                       <<"c","n","=","d","-","1",",","o">> >>]

Bo1 == [dn |-> <<"u","=","B","o",",","o","=","1">>, uid |-> <<"b","o">>,
        password |-> "p1", memberOf |-> <<>>]

Bo2 == [dn |-> <<"u","=","B","o",",","o","=","2">>, uid |-> <<"b","o">>,
        password |-> "p2", memberOf |-> <<>>]

\* An entry one of whose group values does not start with cn=.
Ca == [dn |-> <<"u","=","c","a">>, uid |-> <<"c","a">>, password |-> "p1",
       memberOf |-> << <<"c","n","=","o","p","s",",","o">>,
                       <<"o","u","=","x">> >>]

\* An entry whose group name holds a character outside [a-z0-9\-].
Da == [dn |-> <<"u","=","d","a">>, uid |-> <<"d","a">>, password |-> "p2",
       memberOf |-> << <<"c","n","=","a","_","b",",","o">> >>]

\* The directory's entries in the order a search returns them.
Directory == <<Al, Bo1, Bo2, Ca, Da>>

\* Ldap.searchFilter, the template "(uid=%s)".
searchFilterPrefix == <<"(","u","i","d","=">>

searchFilterSuffix == <<")">>

\* fmt.Sprintf(s.searchFilter, username)
FormatFilter(username) == searchFilterPrefix \o username \o searchFilterSuffix

\* The value a filter (uid=value) asserts.
FilterValue(filter) ==
  SubSeq(filter, Len(searchFilterPrefix) + 1, Len(filter) - Len(searchFilterSuffix))

\* The directory's evaluation of a filter on an entry: uid matches
\* case-insensitively; a value ending in * is a substring filter that matches
\* every uid starting with what precedes the *, so that (uid=*) is a presence
\* test.
EntryMatches(filter, e) ==
  LET v == ToLower(FilterValue(filter))
  IN  IF v # <<>> /\ v[Len(v)] = "*"
      THEN HasPrefix(ToLower(e.uid), SubSeq(v, 1, Len(v) - 1))
      ELSE ToLower(e.uid) = v

RECURSIVE FilterEntries(_, _)
FilterEntries(filter, es) ==
  IF es = <<>> THEN <<>>
  ELSE (IF EntryMatches(filter, Head(es)) THEN <<Head(es)>> ELSE <<>>)
       \o FilterEntries(filter, Tail(es))

\* l.Search(searchRequest): result.Entries for a search that succeeds.
DirectorySearch(filter) == FilterEntries(filter, Directory)

\* l.Bind(dn, password): the directory accepts the bind iff the entry named
\* dn has that password (the client library refuses an empty password).
DirectoryBindOK(dn, password) ==
  /\ password # ""
  /\ \E i \in 1..Len(Directory) :
        Directory[i].dn = dn /\ Directory[i].password = password

-----------------------------------------------------------------------------
(* Ldap.Search: the pure parts *)

\* ldap.go 51-53, 58-60, 75-77, 88-90: after each directory operation Search
\* goes on only if the operation returned no error, and returns the error
\* otherwise.
IgnoresError(ok) == TRUE

Proceeds(ok) == ok

\* ldap.go 80-84, the policy on the number of entries found: "continue" goes on
\* to the bind as the entry, "nil" is the early return of (nil, nil), any other
\* value is the text of the error returned.
CheckEntriesPickFirst(entries) ==
  IF Len(entries) = 0 THEN "nil" ELSE "continue"

CheckEntries(entries) ==
  IF Len(entries) = 0 THEN "nil"
  ELSE IF Len(entries) > 1 THEN "Too many entries returned"
  ELSE "continue"

\* ldap.go 94-98: the User built from the matched entry; the groups are
\* computed by sanitize, which may panic.
NewUserNoLower(entry) ==
  [Uid |-> entry.uid, DN |-> ToLower(entry.dn), Groups |-> sanitize(entry.memberOf).res]

NewUser(entry) ==
  [Uid    |-> ToLower(entry.uid),
   DN     |-> ToLower(entry.dn),
   Groups |-> sanitize(entry.memberOf).res]

-----------------------------------------------------------------------------
(* The token service and the server's errors (package types and the         *)
(* ServerError values, which the handlers call)                             *)

\* The signing key of the instance (Instance.k), and a key that is not it.
PrivateKey == "key"

OtherKey == "other"

\* Lifetime of a token, in ticks of the clock.
TTL == 2

\* Signature of claims under a key.
Sign(key, claims) == <<key, claims>>

\* types.NewToken(data), at time t.
NewToken(data, t) == [data |-> data, exp |-> t + TTL]

\* token.Payload(nil): the signed, serialized bearer string.
Payload(token) ==
  [fmt    |-> "jws",
   claims |-> <<token.data, token.exp>>,
   sig    |-> Sign(PrivateKey, <<token.data, token.exp>>)]

\* types.Parse(bytes, nil): the decoded token, or nothing when the string is
\* not structurally a signed token. The signature is not verified here.
Parse(bearer) ==
  IF bearer.fmt = "jws"
  THEN << [data |-> bearer.claims[1], exp |-> bearer.claims[2], sig |-> bearer.sig] >>
  ELSE <<>>

\* token.IsValid() at time t.
IsValid(token, t) ==
  /\ token.sig = Sign(PrivateKey, <<token.data, token.exp>>)
  /\ t < token.exp

ZeroUser == [Uid |-> <<>>, DN |-> <<>>, Groups |-> <<>>]

\* token.GetUser(): the embedded data decoded as a User; JSON null decodes to
\* the zero User without an error.
GetUser(token) ==
  IF token.data = <<"null">> THEN [err |-> FALSE, user |-> ZeroUser]
  ELSE IF token.data[1] = "object"
  THEN [err |-> FALSE,
        user |-> [Uid |-> token.data[2], DN |-> token.data[3], Groups |-> token.data[4]]]
  ELSE [err |-> TRUE, user |-> ZeroUser]

\* credentials.IsValid()
CredentialsIsValid(c) == c.username # <<>> /\ c.password # ""

ErrNotAcceptable == [s |-> 406, e |-> "not acceptable"]

ErrDecodeFailed == [s |-> 400, e |-> "decode failed"]

ErrMalformedCredentials == [s |-> 400, e |-> "malformed credentials"]

ErrUnauthorized == [s |-> 401, e |-> "unauthorized"]

ErrServerError == [s |-> 500, e |-> "server error"]

ErrMalformedToken == [s |-> 401, e |-> "malformed token"]

-----------------------------------------------------------------------------
(* The handlers: the pure parts *)

ContentTypeJSON == "application/json"

\* server.go 69 and 128: the handler goes on only when the Content-Type header
\* is exactly application/json.
AcceptsAnyContentType(ct) == TRUE

AcceptsContentType(ct) == ct = ContentTypeJSON

\* server.go 74-85: the error that decoding the body and checking the
\* credentials ends the request with, if any.
AuthDecodeErrorUnchecked(req) ==
  IF ~req.decodable THEN <<ErrDecodeFailed>> ELSE <<>>

AuthDecodeError(req) ==
  IF ~req.decodable THEN <<ErrDecodeFailed>>
  ELSE IF ~CredentialsIsValid(req.credentials) THEN <<ErrMalformedCredentials>>
  ELSE <<>>

\* json.Marshal(user) of a *types.User: a nil pointer encodes as null.
Marshal(user) ==
  IF user = <<>> THEN <<"null">>
  ELSE <<"object", user[1].Uid, user[1].DN, user[1].Groups>>

NoResponse ==
  [sent |-> FALSE, status |-> 0, contentType |-> "", text |-> "",
   ec |-> <<>>, tr |-> <<>>]

\* writeError(res, s)
writeError(s) ==
  [sent |-> TRUE, status |-> s.s, contentType |-> "text/plain", text |-> s.e,
   ec |-> <<>>, tr |-> <<>>]

\* server.go 87-91: the error written when Search returns the error err.
SearchErrorResponseByCause(err) ==
  IF err = "Too many entries returned" THEN ErrServerError ELSE ErrUnauthorized

SearchErrorResponse(err) == ErrUnauthorized

\* server.go 112-122: the response carrying the credential.
ExecCredentialResponse(tokenData, tokenExp) ==
  [sent |-> TRUE, status |-> 200, contentType |-> ContentTypeJSON, text |-> "",
   ec |-> << [token |-> tokenData, expirationTimestamp |-> tokenExp] >>,
   tr |-> <<>>]

\* server.go 93-122: the response once Search returned a user and no error,
\* at time t; payloadOK and expOK tell whether token.Payload and
\* token.Expiration returned no error.
IssueResponseDowngraded(user, t, payloadOK, expOK) ==
  IF ~payloadOK \/ ~expOK THEN writeError(ErrUnauthorized)
  ELSE ExecCredentialResponse(Payload(NewToken(Marshal(user), t)),
                              NewToken(Marshal(user), t).exp)

IssueResponse(user, t, payloadOK, expOK) ==
  LET token == NewToken(Marshal(user), t)
  IN  IF ~payloadOK THEN writeError(ErrServerError)
      ELSE IF ~expOK THEN writeError(ErrServerError)
      ELSE ExecCredentialResponse(Payload(token), token.exp)

ZeroUserInfo == [Username |-> <<>>, UID |-> <<>>, Groups |-> <<>>]

\* server.go 157-161
UserInfoSwapped(user) ==
  [Username |-> user.DN, UID |-> user.Uid, Groups |-> user.Groups]

UserInfo(user) ==
  [Username |-> user.Uid, UID |-> user.DN, Groups |-> user.Groups]

\* server.go 147-162: the status of the review, given the review object tr
\* decoded from the request, whether the token is valid and its user. Only
\* the fields assigned change; the rest of tr stays as decoded.
ReviewStatusAlwaysTrue(tr, valid, user) ==
  [tr EXCEPT !.status.authenticated = TRUE, !.status.user = UserInfo(user)]

ReviewStatus(tr, valid, user) ==
  IF ~valid
  THEN [tr EXCEPT !.status.authenticated = FALSE]
  ELSE [tr EXCEPT !.status.authenticated = TRUE, !.status.user = UserInfo(user)]

\* server.go 164-165
ReviewResponse(tr) ==
  [sent |-> TRUE, status |-> 200, contentType |-> ContentTypeJSON, text |-> "",
   ec |-> <<>>, tr |-> <<tr>>]

\* server.go 141-165: what validate does with the decoded review object tr at
\* time t: the response res, the review object as it stands at the end, the
\* step that failed, and whether IsValid was called and what it said.
ReviewOutcomeUnchecked(tr, t) ==
  LET parsed == Parse(tr.token)
  IN  IF parsed = <<>>
      THEN [failed |-> "parse", res |-> writeError(ErrMalformedToken), tr |-> tr,
            checked |-> FALSE, valid |-> FALSE]
      ELSE LET valid == IsValid(parsed[1], t)
               st    == ReviewStatus(tr, valid, GetUser(parsed[1]).user)
           IN  [failed |-> "", res |-> ReviewResponse(st), tr |-> st,
                checked |-> TRUE, valid |-> valid]

ReviewOutcome(tr, t) ==
  LET parsed == Parse(tr.token)
  IN  IF parsed = <<>>
      THEN [failed |-> "parse", res |-> writeError(ErrMalformedToken), tr |-> tr,
            checked |-> FALSE, valid |-> FALSE]
      ELSE LET valid == IsValid(parsed[1], t)
               got   == GetUser(parsed[1])
               st    == ReviewStatus(tr, valid, got.user)
           IN  IF valid /\ got.err
               THEN [failed |-> "getuser", res |-> writeError(ErrServerError),
                     tr |-> tr, checked |-> TRUE, valid |-> valid]
               ELSE [failed |-> "", res |-> ReviewResponse(st), tr |-> st,
                     checked |-> TRUE, valid |-> valid]

\* server.go 133-141: once the body is decoded validate goes on to parse the
\* token; it calls nothing of the directory client.
TokenDecodeNextSearch == "dial"

TokenDecodeNext == "token_review"

-----------------------------------------------------------------------------
(* Requests *)

Usernames ==
  { <<>>, <<"a","l">>, <<"b","o">>, <<"c","a">>, <<"d","a">>, <<"z","z">>, <<"a","*">> }

Passwords == { "", "p1", "p2" }

EmptyCredentials == [username |-> <<>>, password |-> ""]

\* A bearer string that is not a signed token at all.
Garbage == [fmt |-> "garbage", claims |-> << <<"null">>, 0 >>, sig |-> Sign("", << <<"null">>, 0 >>)]

\* A well-formed token made without the signing key, naming an identity of
\* the maker's choice and never expiring within the run.
Forged ==
  [fmt    |-> "jws",
   claims |-> << <<"object", <<"a","l">>, <<"u","=","a","l">>, <<>> >>, MaxTime + TTL + 1 >>,
   sig    |-> Sign(OtherKey, << <<"object", <<"a","l">>, <<"u","=","a","l">>, <<>> >>, MaxTime + TTL + 1 >>)]

\* A token signed with the instance's key whose data is not a User, as
\* another program holding the key can make.
Opaque ==
  [fmt    |-> "jws",
   claims |-> << <<"raw">>, MaxTime + TTL + 1 >>,
   sig    |-> Sign(PrivateKey, << <<"raw">>, MaxTime + TTL + 1 >>)]

\* A token with its signature altered.
Altered(b) == [b EXCEPT !.sig = Sign(OtherKey, b.claims)]

\* A token whose expiration was pushed back after signing.
Extended(b) == [b EXCEPT !.claims[2] = @ + 1]

ZeroStatus == [authenticated |-> FALSE, user |-> ZeroUserInfo]

\* A status a caller may put into the review object it posts.
CarriedStatus ==
  [authenticated |-> TRUE,
   user |-> [Username |-> <<"r","o","o","t">>, UID |-> <<"u","=","r">>,
             Groups |-> << <<"a","d","m">> >>]]

ZeroReview == [token |-> Garbage, status |-> ZeroStatus]

ContentTypes == {ContentTypeJSON, "text/plain"}

\* POST /auth requests: with a JSON content type, an undecodable body or any
\* credentials; with another content type, a sample of bodies.
AuthRequests ==
  { [path |-> "/auth", contentType |-> ContentTypeJSON, decodable |-> TRUE,
     credentials |-> [username |-> u, password |-> p], tr |-> ZeroReview]
      : u \in Usernames, p \in Passwords }
  \cup
  { [path |-> "/auth", contentType |-> ct, decodable |-> FALSE,
     credentials |-> EmptyCredentials, tr |-> ZeroReview] : ct \in ContentTypes }
  \cup
  { [path |-> "/auth", contentType |-> "text/plain", decodable |-> TRUE,
     credentials |-> [username |-> <<"a","l">>, password |-> "p1"], tr |-> ZeroReview] }

\* The bearer strings the server has handed out so far.
IssuedBearers ==
  { response[q].ec[1].token : q \in {x \in Reqs : response[x].ec # <<>>} }

\* The bearer strings a caller may post: the issued ones, variants of them
\* made without the key, and strings that are no token.
Bearers ==
  IssuedBearers
  \cup { Altered(b) : b \in IssuedBearers }
  \cup { Extended(b) : b \in IssuedBearers }
  \cup { Garbage, Forged, Opaque }

TokenRequests ==
  { [path |-> "/token", contentType |-> ContentTypeJSON, decodable |-> TRUE,
     credentials |-> EmptyCredentials, tr |-> [token |-> b, status |-> st]]
      : b \in Bearers, st \in {ZeroStatus, CarriedStatus} }
  \cup
  { [path |-> "/token", contentType |-> ct, decodable |-> FALSE,
     credentials |-> EmptyCredentials, tr |-> ZeroReview] : ct \in ContentTypes }
  \cup
  { [path |-> "/token", contentType |-> "text/plain", decodable |-> TRUE,
     credentials |-> EmptyCredentials, tr |-> [token |-> b, status |-> ZeroStatus]]
      : b \in IssuedBearers }

NoRequest ==
  [path |-> "", contentType |-> "", decodable |-> FALSE,
   credentials |-> EmptyCredentials, tr |-> ZeroReview]

-----------------------------------------------------------------------------
(* State *)

\* The locals of a handler and of the Search it calls. entries is
\* result.Entries; user and err are what Search returned; failed names the
\* step that ended the request early, panicked tells that the goroutine
\* panicked, issuedAt and checkedAt are the clock readings of NewToken and of
\* IsValid.
InitLocal ==
  [credentials |-> EmptyCredentials, entries |-> <<>>, user |-> <<>>, err |-> "",
   tr |-> ZeroReview, failed |-> "", panicked |-> FALSE,
   issuedAt |-> 0, checkedAt |-> 0, valid |-> FALSE]

\* One operation on the directory connection, as logged in ops.
Op(op, dn, password, ok, n) ==
  [op |-> op, dn |-> dn, password |-> password, ok |-> ok, n |-> n]

\* Ldap.bindDN and Ldap.bindPassword
bindDN == <<"s","v","c">>

bindPassword == "svc"

\* No request has arrived yet.
InitRequests ==
  /\ now = 0
  /\ pc = [r \in Reqs |-> "idle"]
  /\ request = [r \in Reqs |-> NoRequest]
  /\ local = [r \in Reqs |-> InitLocal]
  /\ conn = [r \in Reqs |-> "none"]
  /\ ops = [r \in Reqs |-> <<>>]
  /\ response = [r \in Reqs |-> NoResponse]

\* The process has constructed and started one instance, s1.
Init ==
  /\ InitRequests
  /\ instances = [i \in Instances |-> IF i = "s1" THEN "started" ELSE "none"]
  /\ defaultMux = <<"s1">>

\* An unrecovered panic ends the process.
Crashed == \E i \in Instances : instances[i] = "panicked"

\* A step of the serving side: the process runs, and the instances and the
\* default mux stay as they are.
Serving == ~Crashed /\ UNCHANGED <<instances, defaultMux>>

\* server.go 75 and 87: the credentials that the handler of r passes to
\* Search are its own local variable, declared inside the handler function.
SharedCredentials(r) ==
  IF \E q \in Reqs \ {r} : local[q].credentials # EmptyCredentials
  THEN local[CHOOSE q \in Reqs \ {r} : local[q].credentials # EmptyCredentials].credentials
  ELSE local[r].credentials

CallerCredentials(r) == local[r].credentials

\* The handler of r ends with the response res.
Finish(r, res) ==
  /\ response' = [response EXCEPT ![r] = res]
  /\ pc' = [pc EXCEPT ![r] = "done"]

\* Search returns (user, err) to the handler: the deferred l.Close() runs.
SearchReturnNoClose(r, user, err, failed, log) ==
  /\ local' = [local EXCEPT ![r].user = user, ![r].err = err, ![r].failed = failed]
  /\ ops' = [ops EXCEPT ![r] = @ \o log]
  /\ pc' = [pc EXCEPT ![r] = "auth_issue"]
  /\ UNCHANGED <<now, request, response, conn>>

SearchReturn(r, user, err, failed, log) ==
  /\ local' = [local EXCEPT ![r].user = user, ![r].err = err, ![r].failed = failed]
  /\ ops' = [ops EXCEPT ![r] = @ \o log \o <<Op("close", <<>>, "", TRUE, 0)>>]
  /\ conn' = [conn EXCEPT ![r] = "closed"]
  /\ pc' = [pc EXCEPT ![r] = "auth_issue"]
  /\ UNCHANGED <<now, request, response>>

-----------------------------------------------------------------------------
(* Actions *)

\* The clock advances.
Tick ==
  /\ Serving
  /\ now < MaxTime
  /\ now' = now + 1
  /\ UNCHANGED <<pc, request, local, conn, ops, response>>

\* A request arrives at a started server, which serves http.DefaultServeMux:
\* the router registered there hands it to the handler of its path.
Receive(r) ==
  /\ Serving
  /\ defaultMux # <<>>
  /\ \E i \in Instances : instances[i] = "started"
  /\ pc[r] = "idle"
  /\ \E req \in AuthRequests \cup TokenRequests :
        /\ request' = [request EXCEPT ![r] = req]
        /\ pc' = [pc EXCEPT ![r] = IF req.path = "/auth" THEN "auth" ELSE "token"]
  /\ UNCHANGED <<now, local, conn, ops, response>>

\* authenticate, the content type check.
AuthCheck(r) ==
  /\ Serving
  /\ pc[r] = "auth"
  /\ IF ~AcceptsContentType(request[r].contentType)
     THEN /\ Finish(r, writeError(ErrNotAcceptable))
          /\ local' = [local EXCEPT ![r].failed = "content-type"]
     ELSE /\ pc' = [pc EXCEPT ![r] = "auth_decode"]
          /\ UNCHANGED <<local, response>>
  /\ UNCHANGED <<now, request, conn, ops>>

\* authenticate, decoding the body and checking the credentials.
AuthDecode(r) ==
  /\ Serving
  /\ pc[r] = "auth_decode"
  /\ IF AuthDecodeError(request[r]) # <<>>
     THEN /\ Finish(r, writeError(AuthDecodeError(request[r])[1]))
          /\ local' = [local EXCEPT
                         ![r].credentials = IF request[r].decodable
                                            THEN request[r].credentials ELSE @,
                         ![r].failed = IF request[r].decodable
                                       THEN "credentials" ELSE "decode"]
     ELSE /\ pc' = [pc EXCEPT ![r] = "dial"]
          /\ local' = [local EXCEPT ![r].credentials = request[r].credentials]
          /\ UNCHANGED response
  /\ UNCHANGED <<now, request, conn, ops>>

\* Search, ldap.DialURL: the connection opens or the dial fails. The close
\* is deferred only once the dial succeeded.
SearchDial(r) ==
  /\ Serving
  /\ pc[r] = "dial"
  /\ \E ok \in BOOLEAN :
        IF Proceeds(ok)
        THEN /\ conn' = [conn EXCEPT ![r] = "open"]
             /\ ops' = [ops EXCEPT ![r] = @ \o <<Op("dial", <<>>, "", ok, 0)>>]
             /\ pc' = [pc EXCEPT ![r] = "bind"]
             /\ UNCHANGED local
        ELSE /\ local' = [local EXCEPT ![r].user = <<>>, ![r].err = "dial failed",
                                       ![r].failed = "dial"]
             /\ ops' = [ops EXCEPT ![r] = @ \o <<Op("dial", <<>>, "", FALSE, 0)>>]
             /\ pc' = [pc EXCEPT ![r] = "auth_issue"]
             /\ UNCHANGED conn
  /\ UNCHANGED <<now, request, response>>

\* Search, the bind as the service account.
SearchBind(r) ==
  /\ Serving
  /\ pc[r] = "bind"
  /\ conn[r] = "open"
  /\ \E ok \in BOOLEAN :
        IF Proceeds(ok)
        THEN /\ ops' = [ops EXCEPT ![r] = @ \o <<Op("bind", bindDN, bindPassword, ok, 0)>>]
             /\ pc' = [pc EXCEPT ![r] = "search"]
             /\ UNCHANGED <<now, request, local, conn, response>>
        ELSE SearchReturn(r, <<>>, "bind failed", "bind",
                          <<Op("bind", bindDN, bindPassword, FALSE, 0)>>)

\* Search, the search request and the policy on the number of entries.
SearchEntries(r) ==
  /\ Serving
  /\ pc[r] = "search"
  /\ conn[r] = "open"
  /\ \E ok \in BOOLEAN :
        LET entries == DirectorySearch(FormatFilter(CallerCredentials(r).username))
            verdict == CheckEntries(entries)
        IN  IF ~Proceeds(ok)
            THEN SearchReturn(r, <<>>, "search failed", "search",
                              <<Op("search", <<>>, "", FALSE, 0)>>)
            ELSE IF verdict = "nil"
            THEN SearchReturn(r, <<>>, "", "no-entry",
                              <<Op("search", <<>>, "", ok, Len(entries))>>)
            ELSE IF verdict # "continue"
            THEN SearchReturn(r, <<>>, verdict, "too-many",
                              <<Op("search", <<>>, "", ok, Len(entries))>>)
            ELSE /\ local' = [local EXCEPT ![r].entries = entries]
                 /\ ops' = [ops EXCEPT ![r] = @ \o <<Op("search", <<>>, "", ok, Len(entries))>>]
                 /\ pc' = [pc EXCEPT ![r] = "userbind"]
                 /\ UNCHANGED <<now, request, conn, response>>

\* Search, the bind as the matched entry with the caller's password, and the
\* User built from the entry. A panic in sanitize unwinds Search (the
\* deferred close runs) and the handler; the server then drops the HTTP
\* connection without a response.
SearchBindUser(r) ==
  /\ Serving
  /\ pc[r] = "userbind"
  /\ conn[r] = "open"
  /\ \E up \in BOOLEAN :
        LET entry == local[r].entries[1]
            pw    == CallerCredentials(r).password
            ok    == up /\ DirectoryBindOK(entry.dn, pw)
        IN  IF ~Proceeds(ok)
            THEN SearchReturn(r, <<>>, "bind failed", "userbind",
                              <<Op("bind", entry.dn, pw, FALSE, 0)>>)
            ELSE IF sanitize(entry.memberOf).panic
            THEN /\ local' = [local EXCEPT ![r].panicked = TRUE, ![r].failed = "sanitize"]
                 /\ ops' = [ops EXCEPT ![r] = @ \o <<Op("bind", entry.dn, pw, ok, 0),
                                                     Op("close", <<>>, "", TRUE, 0)>>]
                 /\ conn' = [conn EXCEPT ![r] = "closed"]
                 /\ pc' = [pc EXCEPT ![r] = "done"]
                 /\ UNCHANGED <<now, request, response>>
            ELSE SearchReturn(r, <<NewUser(entry)>>, "", "",
                              <<Op("bind", entry.dn, pw, ok, 0)>>)

\* authenticate, after Search returned: the error response, or the token
\* issued for the user and the response carrying it. Marshalling a User
\* (strings and a list of strings) cannot fail; producing the payload and
\* reading the expiration may.
AuthIssue(r) ==
  /\ Serving
  /\ pc[r] = "auth_issue"
  /\ IF local[r].err # ""
     THEN /\ Finish(r, writeError(SearchErrorResponse(local[r].err)))
          /\ UNCHANGED local
     ELSE \E payloadOK, expOK \in BOOLEAN :
            /\ Finish(r, IssueResponse(local[r].user, now, payloadOK, expOK))
            /\ local' = [local EXCEPT
                           ![r].failed = IF ~payloadOK THEN "payload"
                                         ELSE IF ~expOK THEN "expiration" ELSE @,
                           ![r].issuedAt = IF payloadOK /\ expOK THEN now ELSE @]
  /\ UNCHANGED <<now, request, conn, ops>>

\* validate, the content type check.
TokenCheck(r) ==
  /\ Serving
  /\ pc[r] = "token"
  /\ IF ~AcceptsContentType(request[r].contentType)
     THEN /\ Finish(r, writeError(ErrNotAcceptable))
          /\ local' = [local EXCEPT ![r].failed = "content-type"]
     ELSE /\ pc' = [pc EXCEPT ![r] = "token_decode"]
          /\ UNCHANGED <<local, response>>
  /\ UNCHANGED <<now, request, conn, ops>>

\* validate, decoding the body into the review object.
TokenDecode(r) ==
  /\ Serving
  /\ pc[r] = "token_decode"
  /\ IF ~request[r].decodable
     THEN /\ Finish(r, writeError(ErrDecodeFailed))
          /\ local' = [local EXCEPT ![r].failed = "decode"]
     ELSE /\ pc' = [pc EXCEPT ![r] = TokenDecodeNext]
          /\ local' = [local EXCEPT ![r].tr = request[r].tr]
          /\ UNCHANGED response
  /\ UNCHANGED <<now, request, conn, ops>>

\* validate, parsing and checking the token and answering the review.
TokenReview(r) ==
  /\ Serving
  /\ pc[r] = "token_review"
  /\ LET o == ReviewOutcome(local[r].tr, now)
     IN  /\ Finish(r, o.res)
         /\ local' = [local EXCEPT ![r].failed = o.failed,
                                   ![r].tr = o.tr,
                                   ![r].checkedAt = IF o.checked THEN now ELSE @,
                                   ![r].valid = o.valid]
  /\ UNCHANGED <<now, request, conn, ops>>

Next ==
  \/ Tick
  \/ \E r \in Reqs : Receive(r)
  \/ \E r \in Reqs : AuthCheck(r)
  \/ \E r \in Reqs : AuthDecode(r)
  \/ \E r \in Reqs : SearchDial(r)
  \/ \E r \in Reqs : SearchBind(r)
  \/ \E r \in Reqs : SearchEntries(r)
  \/ \E r \in Reqs : SearchBindUser(r)
  \/ \E r \in Reqs : AuthIssue(r)
  \/ \E r \in Reqs : TokenCheck(r)
  \/ \E r \in Reqs : TokenDecode(r)
  \/ \E r \in Reqs : TokenReview(r)

Spec == Init /\ [][Next]_vars

-----------------------------------------------------------------------------
(* Construction of instances *)

\* server.go 49: http.Handle("/", r) registers the router on the default mux;
\* a pattern can be registered once, and a second registration panics.
HandlePanics(mux) == mux # <<>>

\* NewInstance: the key is obtained or an error is returned; the instance and
\* its router are made; the router is registered on the default mux.
NewInstance(i) ==
  /\ ~Crashed
  /\ instances[i] = "none"
  /\ \E keyOK \in BOOLEAN :
        IF ~keyOK
        THEN /\ instances' = [instances EXCEPT ![i] = "error"]
             /\ UNCHANGED defaultMux
        ELSE IF HandlePanics(defaultMux)
        THEN /\ instances' = [instances EXCEPT ![i] = "panicked"]
             /\ UNCHANGED defaultMux
        ELSE /\ instances' = [instances EXCEPT ![i] = "built"]
             /\ defaultMux' = <<i>>
  /\ UNCHANGED <<now, pc, request, local, conn, ops, response>>

\* Start: http.ListenAndServe(addr, nil) serves the default mux.
Start(i) ==
  /\ ~Crashed
  /\ instances[i] = "built"
  /\ instances' = [instances EXCEPT ![i] = "started"]
  /\ UNCHANGED <<now, pc, request, local, conn, ops, response, defaultMux>>

\* A process that has constructed nothing yet.
InitProcess ==
  /\ InitRequests
  /\ instances = [i \in Instances |-> "none"]
  /\ defaultMux = <<>>

NextProcess ==
  \/ \E i \in Instances : NewInstance(i)
  \/ \E i \in Instances : Start(i)
  \/ Tick
  \/ \E r \in Reqs : Receive(r)
  \/ \E r \in Reqs : AuthCheck(r)
  \/ \E r \in Reqs : AuthDecode(r)
  \/ \E r \in Reqs : SearchDial(r)
  \/ \E r \in Reqs : SearchBind(r)
  \/ \E r \in Reqs : SearchEntries(r)
  \/ \E r \in Reqs : SearchBindUser(r)
  \/ \E r \in Reqs : AuthIssue(r)
  \/ \E r \in Reqs : TokenCheck(r)
  \/ \E r \in Reqs : TokenDecode(r)
  \/ \E r \in Reqs : TokenReview(r)

SpecProcess == InitProcess /\ [][NextProcess]_vars

-----------------------------------------------------------------------------
(* Vocabulary of the properties *)

Done(r) == pc[r] = "done"

IsAuth(r) == request[r].path = "/auth"

IsToken(r) == request[r].path = "/token"

\* The response of r carries a token.
CarriesToken(r) == response[r].ec # <<>>

\* r's search succeeded and found n entries.
SearchFound(r, n) ==
  \E i \in 1..Len(ops[r]) :
     ops[r][i].op = "search" /\ ops[r][i].ok /\ ops[r][i].n = n

\* The binds r issued with another DN than the service account's.
UserBinds(r) ==
  { i \in 1..Len(ops[r]) : ops[r][i].op = "bind" /\ ops[r][i].dn # bindDN }

\* r bound successfully as entry e with the password its caller supplied.
BoundAs(r, e) ==
  \E i \in UserBinds(r) :
     /\ ops[r][i].ok
     /\ ops[r][i].dn = e.dn
     /\ ops[r][i].password = request[r].credentials.password

\* The identity a bearer string embeds.
Embedded(bearer) == GetUser(Parse(bearer)[1]).user

\* A group value matches the pattern ^cn=([a-z0-9\-]+) once lowercased.
MatchesPattern(v) == FindStringSubmatch(ToLower(v)) # <<>>

-----------------------------------------------------------------------------
(* C1 *)

\* C1: POST /auth answers 200 with a token only if, in the same request, the
\* search matched exactly one entry and a bind with that entry's DN and the
\* caller's password succeeded.
C1_TokenOnlyAfterUserBind ==
  \A r \in Reqs :
     (IsAuth(r) /\ Done(r) /\ (response[r].status = 200 \/ CarriesToken(r)))
     => /\ SearchFound(r, 1)
        /\ Len(local[r].entries) = 1
        /\ BoundAs(r, local[r].entries[1])

(* C2 *)

\* C2: when the search matches no entry, Search returns an error and POST
\* /auth answers as it does for a wrong password (401, no token); no token is
\* built for a nil identity.
C2_NoEntryIsUnauthorized ==
  \A r \in Reqs :
     (IsAuth(r) /\ Done(r) /\ SearchFound(r, 0))
     => /\ local[r].err # ""
        /\ response[r] = writeError(ErrUnauthorized)
        /\ ~CarriesToken(r)

(* C3 *)

\* The case of C3: the search matched one entry, the bind as it succeeded,
\* every group value of the entry matches the pattern, and neither producing
\* the payload nor reading the expiration failed.
C3_Case(r) ==
  /\ IsAuth(r) /\ Done(r)
  /\ SearchFound(r, 1)
  /\ Len(local[r].entries) = 1
  /\ BoundAs(r, local[r].entries[1])
  /\ \A i \in 1..Len(local[r].entries[1].memberOf) :
        MatchesPattern(local[r].entries[1].memberOf[i])
  /\ local[r].failed \notin {"payload", "expiration"}

C4_AmbiguousMatchFails ==
  \A r \in Reqs :
     (IsAuth(r) /\ \E n \in 2..Len(Directory) : SearchFound(r, n))
     => /\ UserBinds(r) = {}
        /\ local[r].entries = <<>>
        /\ local[r].user = <<>>
        /\ local[r].err # ""
        /\ ~CarriesToken(r)
        /\ Done(r) => response[r].status = 401

\* Witness of C4: a request for bo, whom two entries match, with the password
\* of the second of them, has been answered.
C4_Witness ==
  \E r \in Reqs :
     /\ IsAuth(r) /\ Done(r)
     /\ SearchFound(r, 2)
     /\ request[r].credentials.password = Bo2.password
     /\ response[r].sent

(* C5 *)

\* The directory steps whose failure C5 is about.
DirectoryFailures == {"dial", "bind", "search", "too-many", "userbind"}

\* C5: two requests to POST /auth that failed at a directory step, whichever
\* steps these were, got the same response, with status 401.
C5_DirectoryFailuresIndistinguishable ==
  \A r, q \in Reqs :
     (/\ IsAuth(r) /\ Done(r) /\ local[r].failed \in DirectoryFailures
      /\ IsAuth(q) /\ Done(q) /\ local[q].failed \in DirectoryFailures)
     => /\ response[r] = response[q]
        /\ response[r].status = 401

\* Witness of C5: one request failed on an ambiguous match and another on the
\* bind as the user.
C5_Witness ==
  \E r, q \in Reqs :
     /\ IsAuth(r) /\ Done(r) /\ local[r].failed = "too-many"
     /\ IsAuth(q) /\ Done(q) /\ local[q].failed = "userbind"

(* C6 *)

\* r posted to /token, with a JSON content type and a decodable body, the
\* bearer string that /auth returned to q for an identity, and the check of
\* the token happened before the token's expiration.
C6_Case(r, q) ==
  /\ IsToken(r) /\ Done(r)
  /\ request[r].contentType = ContentTypeJSON /\ request[r].decodable
  /\ IsAuth(q) /\ Done(q) /\ response[q].status = 200 /\ CarriesToken(q)
  /\ local[q].user # <<>>
  /\ request[r].tr.token = response[q].ec[1].token
  /\ local[r].checkedAt < response[q].ec[1].expirationTimestamp

\* C6: a token returned by POST /auth for an identity and reviewed by POST
\* /token before its expiration yields 200 with authenticated = true,
\* username = the identity's uid, uid = its DN and groups = its groups.
C6_RoundTrip ==
  \A r, q \in Reqs :
     C6_Case(r, q)
     => /\ response[r].status = 200
        /\ response[r].tr # <<>>
        /\ response[r].tr[1].status.authenticated
        /\ response[r].tr[1].status.user.Username = local[q].user[1].Uid
        /\ response[r].tr[1].status.user.UID = local[q].user[1].DN
        /\ response[r].tr[1].status.user.Groups = local[q].user[1].Groups

\* Witness of C6: the token issued for Al (two groups) was reviewed in time,
\* after the clock had advanced.
C6_Witness ==
  \E r, q \in Reqs :
     /\ C6_Case(r, q)
     /\ Len(local[q].user[1].Groups) = 2
     /\ local[r].checkedAt > local[q].issuedAt
     /\ response[r].sent

(* C7 *)

\* The signature of a bearer string verifies against the instance's key.
SignatureVerifies(b) == b.fmt = "jws" /\ b.sig = Sign(PrivateKey, b.claims)

\* r answered a review with authenticated = true.
SaidAuthenticated(r) ==
  /\ IsToken(r) /\ Done(r)
  /\ response[r].tr # <<>>
  /\ response[r].tr[1].status.authenticated

\* C7: POST /token reports authenticated = true only for a bearer string
\* whose signature verifies and whose expiration is later than the time of
\* the check; an expired token and a token with an altered signature never
\* yield authenticated = true.
C7_AuthenticatedOnlyIfValid ==
  \A r \in Reqs :
     SaidAuthenticated(r)
     => /\ SignatureVerifies(request[r].tr.token)
        /\ local[r].checkedAt < request[r].tr.token.claims[2]

\* Witness of C7: a token that was issued by /auth was reviewed at or after
\* its expiration, and the review was answered.
C7_Witness ==
  \E r, q \in Reqs :
     /\ IsToken(r) /\ Done(r) /\ response[r].tr # <<>>
     /\ CarriesToken(q)
     /\ request[r].tr.token = response[q].ec[1].token
     /\ local[r].checkedAt >= response[q].ec[1].expirationTimestamp
     /\ ~response[r].tr[1].status.authenticated

(* C8 *)

\* C8: a review of a token that parses but is not valid is answered 200 with
\* authenticated = false and no identity field populated, whatever the
\* request object carried.
C8_InvalidTokenNoIdentity ==
  \A r \in Reqs :
     (/\ IsToken(r) /\ Done(r)
      /\ request[r].contentType = ContentTypeJSON /\ request[r].decodable
      /\ Parse(request[r].tr.token) # <<>>
      /\ ~IsValid(Parse(request[r].tr.token)[1], local[r].checkedAt))
     => /\ response[r].status = 200
        /\ response[r].tr # <<>>
        /\ ~response[r].tr[1].status.authenticated
        /\ response[r].tr[1].status.user = ZeroUserInfo

(* C9 *)

\* C9: when the matched entry holds a group value that does not match the
\* pattern, Search returns an error to the handler (it does not panic) and
\* POST /auth issues no token.
C9_BadGroupValueIsError ==
  \A r \in Reqs :
     (/\ IsAuth(r) /\ pc[r] \in {"auth_issue", "done"}
      /\ Len(local[r].entries) = 1
      /\ BoundAs(r, local[r].entries[1])
      /\ \E i \in 1..Len(local[r].entries[1].memberOf) :
            ~MatchesPattern(local[r].entries[1].memberOf[i]))
     => /\ ~local[r].panicked
        /\ local[r].err # ""
        /\ ~CarriesToken(r)

(* C10 *)

\* The first position of a comma in s, 0 when there is none.
FirstComma(s) ==
  IF \E i \in 1..Len(s) : s[i] = ","
  THEN CHOOSE i \in 1..Len(s) : s[i] = "," /\ \A j \in 1..(i - 1) : s[j] # ","
  ELSE 0

\* v has the form cn=<name>,<rest> with a name that is not empty.
HasCnForm(v) == HasPrefix(ToLower(v), CnPrefix) /\ FirstComma(v) > 4

\* The <name> of a value of that form, lowercased.
CnName(v) == SubSeq(ToLower(v), 4, FirstComma(v) - 1)

\* C10: the group list of a user has one element per group value, in order,
\* and for a value of the form cn=<name>,<rest> the element is the whole
\* <name> lowercased.
C10_WholeGroupName ==
  \A r \in Reqs :
     (IsAuth(r) /\ local[r].user # <<>>)
     => LET values == local[r].entries[1].memberOf
            groups == local[r].user[1].Groups
        IN  /\ Len(groups) = Len(values)
            /\ \A i \in 1..Len(values) :
                  HasCnForm(values[i]) => groups[i] = CnName(values[i])

(* C11 *)

\* C11: a request to either endpoint whose content type is not JSON is
\* answered 406 whatever its body: the body is not decoded, no directory
\* operation is performed, no token is parsed or issued.
C11_NotJSONIsNotAcceptable ==
  \A r \in Reqs :
     (pc[r] # "idle" /\ request[r].contentType # ContentTypeJSON)
     => /\ pc[r] \in {"auth", "token", "done"}
        /\ local[r].credentials = EmptyCredentials
        /\ local[r].tr = ZeroReview
        /\ ops[r] = <<>> /\ conn[r] = "none"
        /\ ~CarriesToken(r) /\ response[r].tr = <<>>
        /\ Done(r) => response[r] = writeError(ErrNotAcceptable)
        /\ Done(r) => response[r].status = 406

\* Witness of C11: a request to each endpoint with a decodable body (valid
\* credentials, an issued token) and another content type has been answered.
C11_Witness ==
  \E r, q \in Reqs :
     /\ IsAuth(r) /\ Done(r) /\ request[r].contentType # ContentTypeJSON
     /\ request[r].decodable /\ CredentialsIsValid(request[r].credentials)
     /\ IsToken(q) /\ Done(q) /\ request[q].contentType # ContentTypeJSON
     /\ response[q].status = 406

(* C12 *)

\* C12: POST /auth with a JSON content type and an undecodable body, an empty
\* username or an empty password is answered 400, and no directory
\* connection is opened for it at any point.
C12_MalformedBeforeDirectory ==
  \A r \in Reqs :
     (/\ IsAuth(r) /\ request[r].contentType = ContentTypeJSON
      /\ \/ ~request[r].decodable
         \/ request[r].credentials.username = <<>>
         \/ request[r].credentials.password = "")
     => /\ ops[r] = <<>> /\ conn[r] = "none"
        /\ pc[r] \in {"auth", "auth_decode", "done"}
        /\ Done(r) => response[r].status = 400 /\ ~CarriesToken(r)

\* Witness of C12: a request with a username of the directory and an empty
\* password, and one with an undecodable body, have been answered.
C12_Witness ==
  \E r, q \in Reqs :
     /\ IsAuth(r) /\ Done(r) /\ request[r].contentType = ContentTypeJSON
     /\ request[r].decodable
     /\ request[r].credentials.username = <<"a","l">>
     /\ request[r].credentials.password = ""
     /\ IsAuth(q) /\ Done(q) /\ request[q].contentType = ContentTypeJSON
     /\ ~request[q].decodable

(* C13 *)

\* The operations of r up to position i hold a close.
ClosedBefore(r, i) == \E j \in 1..(i - 1) : ops[r][j].op = "close"

\* C13: every connection an authentication opens is closed when Search has
\* returned or was unwound by a panic, on every exit; a connection is open
\* only while Search runs, is closed once, and no operation follows its close.
C13_ConnectionReleased ==
  \A r \in Reqs :
     /\ pc[r] \in {"auth_issue", "done"} => conn[r] # "open"
     /\ (\E i \in 1..Len(ops[r]) : ops[r][i].op = "dial" /\ ops[r][i].ok)
        => (conn[r] = "open" /\ pc[r] \in {"bind", "search", "userbind"})
           \/ (conn[r] = "closed" /\ ops[r][Len(ops[r])].op = "close")
     /\ \A i \in 1..Len(ops[r]) : ~ClosedBefore(r, i)

\* Witness of C13: one authentication ended with a token and another was
\* unwound by the panic of sanitize, both after opening a connection.
C13_Witness ==
  \E r, q \in Reqs :
     /\ Done(r) /\ CarriesToken(r) /\ conn[r] = "closed"
     /\ Done(q) /\ local[q].panicked /\ conn[q] = "closed"

(* C17 *)

\* The directory steps r attempted, in order: its operations but the close.
Steps(r) == SelectSeq(ops[r], LAMBDA o : o.op # "close")

\* The fixed order of the steps of one authentication.
StepOrder == <<"dial", "bind", "search", "bind">>

\* C17: the steps of one authentication are a prefix of connect, bind as the
\* service account, search, bind as the matched entry, each at most once; a
\* step is attempted only after every earlier one succeeded; a step that
\* fails is the last one, and Search has then returned an error.
C17_StepsInOrderNoRetry ==
  \A r \in Reqs :
     LET st == Steps(r)
     IN  /\ Len(st) <= Len(StepOrder)
         /\ \A i \in 1..Len(st) : st[i].op = StepOrder[i]
         /\ Len(st) >= 2 => st[2].dn = bindDN /\ st[2].password = bindPassword
         /\ Len(st) >= 4 => /\ Len(local[r].entries) = 1
                            /\ st[4].dn = local[r].entries[1].dn
                            /\ st[4].password = request[r].credentials.password
         /\ \A i \in 1..(Len(st) - 1) : st[i].ok
         /\ (Len(st) >= 1 /\ ~st[Len(st)].ok)
            => /\ pc[r] \in {"auth_issue", "done"}
               /\ local[r].err # ""
               /\ local[r].user = <<>>

\* Witness of C17: one authentication went through all four steps and ended,
\* another ended at a failed bind as the service account.
C17_Witness ==
  \E r, q \in Reqs :
     /\ Done(r) /\ Len(Steps(r)) = 4 /\ Steps(r)[4].ok
     /\ Done(q) /\ Len(Steps(q)) = 2 /\ ~Steps(q)[2].ok

(* C14 *)

\* C14: when Search returned a user and producing the payload or reading the
\* expiration fails, POST /auth answers 500, not 401, without a token; and a
\* 200 response of POST /auth carries a token that is signed with the
\* instance's key together with that token's expiration.
C14_IssuanceFailureIsServerError ==
  \A r \in Reqs :
     (IsAuth(r) /\ Done(r))
     => /\ local[r].failed \in {"payload", "expiration"}
           => /\ response[r] = writeError(ErrServerError)
              /\ response[r].status = 500
              /\ ~CarriesToken(r)
        /\ response[r].status = 200
           => /\ CarriesToken(r)
              /\ Parse(response[r].ec[1].token) # <<>>
              /\ response[r].ec[1].token.sig =
                    Sign(PrivateKey, response[r].ec[1].token.claims)
              /\ response[r].ec[1].expirationTimestamp =
                    Parse(response[r].ec[1].token)[1].exp

\* Witness of C14: after a successful bind as Al, one request failed at the
\* payload and another at the expiration.
C14_Witness ==
  \E r, q \in Reqs :
     /\ IsAuth(r) /\ Done(r) /\ local[r].user # <<>> /\ local[r].failed = "payload"
     /\ IsAuth(q) /\ Done(q) /\ local[q].user # <<>> /\ local[q].failed = "expiration"
     /\ BoundAs(r, Al) /\ BoundAs(q, Al)

(* C15 *)

\* r posted a review with a JSON content type and a decodable body.
ReviewedBody(r) ==
  /\ IsToken(r) /\ Done(r)
  /\ request[r].contentType = ContentTypeJSON /\ request[r].decodable

\* C15: a bearer string that does not parse is answered 401, a token that
\* parses and is valid but whose identity cannot be decoded is answered 500,
\* and in neither case is a review object (authenticated, user) sent.
C15_MalformedAndUndecodable ==
  \A r \in Reqs :
     ReviewedBody(r)
     => LET parsed == Parse(request[r].tr.token)
        IN  /\ parsed = <<>>
               => /\ response[r] = writeError(ErrMalformedToken)
                  /\ response[r].status = 401
                  /\ response[r].tr = <<>>
            /\ (/\ parsed # <<>>
                /\ IsValid(parsed[1], local[r].checkedAt)
                /\ GetUser(parsed[1]).err)
               => /\ response[r] = writeError(ErrServerError)
                  /\ response[r].status = 500
                  /\ response[r].tr = <<>>

\* Witness of C15: a string that is no token and a signed token whose data is
\* no User have both been reviewed, each with a status carried in the request.
C15_Witness ==
  \E r, q \in Reqs :
     /\ ReviewedBody(r) /\ request[r].tr = [token |-> Garbage, status |-> CarriedStatus]
     /\ ReviewedBody(q) /\ request[q].tr = [token |-> Opaque, status |-> CarriedStatus]
     /\ response[q].sent

(* C16 *)

\* C16: a request to POST /token never opens a directory connection nor
\* issues a bind or a search, on any path of validate.
C16_ReviewNeverContactsDirectory ==
  \A r \in Reqs :
     (pc[r] # "idle" /\ IsToken(r))
     => /\ ops[r] = <<>>
        /\ conn[r] = "none"
        /\ pc[r] \in {"token", "token_decode", "token_review", "done"}

\* Witness of C16: a review was answered authenticated = true.
C16_Witness == \E r \in Reqs : SaidAuthenticated(r)

(* C20 *)

\* C20: the search for a submitted username matches only entries whose uid is
\* that username, taken literally, and a token issued for a user carries the
\* uid that was submitted.
C20_UsernameIsLiteral ==
  \A r \in Reqs :
     IsAuth(r)
     => /\ \A i \in 1..Len(local[r].entries) :
              ToLower(local[r].entries[i].uid) = ToLower(request[r].credentials.username)
        /\ (Done(r) /\ CarriesToken(r) /\ local[r].user # <<>>)
           => Embedded(response[r].ec[1].token).Uid =
                 ToLower(request[r].credentials.username)

(* C19 *)

\* The directory's and the token service's answers to r, as r met them: a
\* step answered well iff r logged it as succeeded.
AnswersTo(r) ==
  [dial     |-> \E i \in 1..Len(ops[r]) : ops[r][i].op = "dial" /\ ops[r][i].ok,
   bind     |-> \E i \in 1..Len(ops[r]) :
                   ops[r][i].op = "bind" /\ ops[r][i].dn = bindDN /\ ops[r][i].ok,
   search   |-> \E i \in 1..Len(ops[r]) : ops[r][i].op = "search" /\ ops[r][i].ok,
   userbind |-> \E i \in UserBinds(r) : ops[r][i].ok,
   payload  |-> local[r].failed # "payload",
   exp      |-> local[r].failed # "expiration"]

\* The response to a POST /auth request req handled alone, from start to end
\* with nothing else running, given the answers a and the clock reading t.
AloneAuth(req, a, t) ==
  IF ~AcceptsContentType(req.contentType) THEN writeError(ErrNotAcceptable)
  ELSE IF AuthDecodeError(req) # <<>> THEN writeError(AuthDecodeError(req)[1])
  ELSE IF ~a.dial THEN writeError(SearchErrorResponse("dial failed"))
  ELSE IF ~a.bind THEN writeError(SearchErrorResponse("bind failed"))
  ELSE IF ~a.search THEN writeError(SearchErrorResponse("search failed"))
  ELSE LET entries == DirectorySearch(FormatFilter(req.credentials.username))
           verdict == CheckEntries(entries)
       IN  IF verdict = "nil" THEN IssueResponse(<<>>, t, a.payload, a.exp)
           ELSE IF verdict # "continue" THEN writeError(SearchErrorResponse(verdict))
           ELSE IF ~(a.userbind /\ DirectoryBindOK(entries[1].dn, req.credentials.password))
           THEN writeError(SearchErrorResponse("bind failed"))
           ELSE IF sanitize(entries[1].memberOf).panic THEN NoResponse
           ELSE IssueResponse(<<NewUser(entries[1])>>, t, a.payload, a.exp)

\* The response to a POST /token request req handled alone at time t.
AloneToken(req, t) ==
  IF ~AcceptsContentType(req.contentType) THEN writeError(ErrNotAcceptable)
  ELSE IF ~req.decodable THEN writeError(ErrDecodeFailed)
  ELSE ReviewOutcome(req.tr, t).res

\* Every request that has ended got the response it gets when handled alone
\* with the same directory answers and clock.
C19_AsIfAlone ==
  \A r \in Reqs :
     Done(r)
     => response[r] =
           IF IsAuth(r)
           THEN AloneAuth(request[r], AnswersTo(r), local[r].issuedAt)
           ELSE AloneToken(request[r], local[r].checkedAt)

\* A step of the handler of one request leaves everything of the other
\* requests as it is.
C19_Frame ==
  \A r, q \in Reqs :
     (r # q /\ <<pc[r], request[r], local[r], conn[r], ops[r], response[r]>>
               # <<pc'[r], request'[r], local'[r], conn'[r], ops'[r], response'[r]>>)
     => <<pc[q], request[q], local[q], conn[q], ops[q], response[q]>>
        = <<pc'[q], request'[q], local'[q], conn'[q], ops'[q], response'[q]>>

\* C19: under every interleaving of concurrently handled requests, each
\* request gets the response it gets when handled alone with the same
\* directory answers and clock, and no step of one request changes the state
\* of another.
C19_RequestsIndependent == [][C19_Frame]_vars /\ []C19_AsIfAlone

\* Witness of C19: while one request stood between its search and its bind as
\* the user, another, with other credentials, had already been decoded and
\* was answered.
C19_Witness ==
  \E r, q \in Reqs :
     /\ IsAuth(r) /\ pc[r] = "userbind"
     /\ IsAuth(q) /\ Done(q) /\ Len(ops[q]) > Len(ops[r])
     /\ local[q].credentials # local[r].credentials
     /\ response[q].status = 200

(* C18 *)

\* C18: every NewInstance call that obtained its key yields an instance (none
\* panics), and every instance that was built has its own router serving its
\* routes.
C18_SeveralInstances ==
  \A i \in Instances :
     /\ instances[i] # "panicked"
     /\ instances[i] \in {"built", "started"} => defaultMux = <<i>>

====
